---- MODULE Spec2Model ----
(***************************************************************************)
(* Model of ikonst/matchers: "conditional ANY" matcher objects             *)
(* (matchers.py) and the dict comparison of test_matchers.py.              *)
(*                                                                         *)
(* Python values are records of one shape [t, n, s, l]:                    *)
(*   t  the type name, n the number of an int/bool, s the characters of a  *)
(*   str (or the 32 hex digits of a UUID object), l the elements of a list.*)
(* A str is a sequence of one-character strings.                           *)
(***************************************************************************)
EXTENDS Integers, Sequences, FiniteSets, TLC

VARIABLES
    expected,   \* key -> matcher object: the expected mapping of the assertion
    log,        \* key -> sequence of the values compared against that matcher
    call,       \* the last operation performed and its outcome
    threads     \* thread -> the comparison it is making and how far it got
                \* (empty when the comparisons are made one after the other)

vars == <<expected, log, call, threads>>

----------------------------------------------------------------------------
(* Bounds *)

\* total number of leaf comparisons made on the matchers of one run
MaxCompares == 3

----------------------------------------------------------------------------
(* Python values *)

PyInt(i) == [t |-> "int", n |-> i, s |-> <<>>, l |-> <<>>]
PyBool(b) == [t |-> "bool", n |-> IF b THEN 1 ELSE 0, s |-> <<>>, l |-> <<>>]
PyStr(cs) == [t |-> "str", n |-> 0, s |-> cs, l |-> <<>>]
PyUUID(hex) == [t |-> "UUID", n |-> 0, s |-> hex, l |-> <<>>]
PyList(xs) == [t |-> "list", n |-> 0, s |-> <<>>, l |-> xs]
PyTuple(xs) == [t |-> "tuple", n |-> 0, s |-> <<>>, l |-> xs]
PyNone == [t |-> "NoneType", n |-> 0, s |-> <<>>, l |-> <<>>]

\* the two module-level sentinel objects
_not_compared == [t |-> "_not_compared", n |-> 0, s |-> <<>>, l |-> <<>>]
_not_matched == [t |-> "_not_matched", n |-> 0, s |-> <<>>, l |-> <<>>]

isinstance_int(v) == v.t \in {"int", "bool"}
isinstance_str(v) == v.t = "str"

IsSeq(v) == v.t \in {"list", "tuple"}

\* == of two values that are not lists or tuples
ScalarEq(a, b) ==
    IF isinstance_int(a) /\ isinstance_int(b) THEN a.n = b.n
    ELSE a.t = b.t /\ a.t \in {"str", "UUID", "NoneType"} /\ a.s = b.s

\* Python's == on values
PyEq(a, b) ==
    IF IsSeq(a) \/ IsSeq(b)
    THEN /\ a.t = b.t
         /\ Len(a.l) = Len(b.l)
         /\ \A i \in 1..Len(a.l) : ScalarEq(a.l[i], b.l[i])
    ELSE ScalarEq(a, b)

RECURSIVE digits(_)
\* the decimal digits of a natural number
digits(i) ==
    LET d == <<"0", "1", "2", "3", "4", "5", "6", "7", "8", "9">>[(i % 10) + 1]
    IN  IF i < 10 THEN <<d>> ELSE digits(i \div 10) \o <<d>>

\* a membership test that compares the str() forms of numbers and strs
PyIn_by_str(v, items) ==
    LET str(x) == IF x.t = "int" THEN PyStr(digits(x.n)) ELSE x
    IN  \E i \in 1..Len(items.l) : PyEq(str(items.l[i]), str(v))

\* v in items, for a tuple of items
PyIn(v, items) == \E i \in 1..Len(items.l) : PyEq(items.l[i], v)

\* outcome of evaluating an expression: a boolean, or an exception
Returns(b) == [exc |-> "", val |-> b]
Raises(e) == [exc |-> e, val |-> FALSE]

----------------------------------------------------------------------------
(* str methods used by uuid.UUID(hex) *)

\* s[i..] begins with the characters of sub
StartsWithAt(s, sub, i) ==
    /\ i + Len(sub) - 1 <= Len(s)
    /\ \A j \in 1..Len(sub) : s[i + j - 1] = sub[j]

startswith(s, prefix) == StartsWithAt(s, prefix, 1)

\* the positions of s where sub occurs
Occurrences(s, sub) == {i \in 1..Len(s) : StartsWithAt(s, sub, i)}

RECURSIVE Remove(_, _)

\* s without the occurrence of sub at i, and without those after it
RemoveAt(s, sub, i) ==
    SubSeq(s, 1, i - 1) \o Remove(SubSeq(s, i + Len(sub), Len(s)), sub)

\* s.replace(sub, ''), sub non-empty: the occurrences of sub are removed
\* from left to right
Remove(s, sub) ==
    IF Occurrences(s, sub) = {} THEN s
    ELSE RemoveAt(s, sub,
            CHOOSE i \in Occurrences(s, sub) :
                \A j \in Occurrences(s, sub) : i <= j)

RECURSIVE LStrip(_, _)
LStrip(s, chars) ==
    IF s # <<>> /\ Head(s) \in chars THEN LStrip(Tail(s), chars) ELSE s

RECURSIVE RStrip(_, _)
RStrip(s, chars) ==
    IF s # <<>> /\ s[Len(s)] \in chars
    THEN RStrip(SubSeq(s, 1, Len(s) - 1), chars) ELSE s

\* s.strip(chars)
Strip(s, chars) == RStrip(LStrip(s, chars), chars)

HexDigits == {"0", "1", "2", "3", "4", "5", "6", "7", "8", "9",
              "a", "b", "c", "d", "e", "f", "A", "B", "C", "D", "E", "F"}
Whitespace == {" ", "\t", "\n"}

\* the digits of an int literal: hex digits, single underscores between them
DigitsOK(d, afterPrefix) ==
    /\ d # <<>>
    /\ \A i \in 1..Len(d) : d[i] \in HexDigits \cup {"_"}
    /\ d[Len(d)] # "_"
    /\ (d[1] = "_" => afterPrefix)
    /\ \A i \in 1..(Len(d) - 1) : ~(d[i] = "_" /\ d[i + 1] = "_")

\* the digits d of an int literal, after its sign and its 0x prefix
int16_digits(d, prefixed, negative) ==
    [ok |-> DigitsOK(d, prefixed),
     neg |-> /\ DigitsOK(d, prefixed)
             /\ negative
             /\ \E i \in 1..Len(d) : d[i] \in HexDigits \ {"0"}]

\* an int literal b after its sign: an optional 0x prefix, then the digits
int16_unsigned(b, negative) ==
    IF startswith(b, <<"0", "x">>) \/ startswith(b, <<"0", "X">>)
    THEN int16_digits(SubSeq(b, 3, Len(b)), TRUE, negative)
    ELSE int16_digits(b, FALSE, negative)

\* an int literal a without the surrounding whitespace: an optional sign first
int16_stripped(a) ==
    IF a # <<>> /\ a[1] \in {"+", "-"}
    THEN int16_unsigned(Tail(a), a[1] = "-")
    ELSE int16_unsigned(a, FALSE)

\* int(s, 16): [ok |-> it parses, neg |-> the number is negative]
int16(s) == int16_stripped(Strip(s, Whitespace))

\* the hex digits h, 32 of them, make a number in 0 .. 2^128 - 1
UUID_int_ok(parsed) == parsed.ok /\ ~parsed.neg

UUID_digits_ok(h) == Len(h) = 32 /\ UUID_int_ok(int16(h))

\* uuid.UUID(hex) for a str hex: TRUE when it constructs, FALSE when it
\* raises ValueError
UUID_hex_ok(hex) ==
    UUID_digits_ok(
        Remove(Strip(Remove(Remove(hex, <<"u", "r", "n", ":">>),
                            <<"u", "u", "i", "d", ":">>),
                     {"{", "}"}),
               <<"-">>))

----------------------------------------------------------------------------
(* re.compile(pattern, re.DOTALL) and pattern.match, for patterns made of  *)
(* literal characters, ".", "^" and "$"; of the patterns re.compile refuses,*)
(* those with a "(" that no ")" closes and those that begin with "*"       *)

\* re.compile(p) raises re.error: "missing ), unterminated subpattern" or
\* "nothing to repeat"
re_error(p) ==
    \/ \E i \in 1..Len(p) :
            p[i] = "(" /\ \A j \in (i + 1)..Len(p) : p[j] # ")"
    \/ p # <<>> /\ p[1] = "*"

\* the compiled pattern, for a p that re.compile accepts
re_compile(p) ==
    [i \in 1..Len(p) |->
        IF p[i] = "." THEN [k |-> "any", c |-> ""]
        ELSE IF p[i] = "^" THEN [k |-> "bol", c |-> ""]
        ELSE IF p[i] = "$" THEN [k |-> "eol", c |-> ""]
        ELSE [k |-> "lit", c |-> p[i]]]

\* compiled.pattern: the string the pattern was compiled from
re_pattern(toks) ==
    [i \in 1..Len(toks) |->
        IF toks[i].k = "any" THEN "."
        ELSE IF toks[i].k = "bol" THEN "^"
        ELSE IF toks[i].k = "eol" THEN "$"
        ELSE toks[i].c]

RECURSIVE MatchFrom(_, _, _, _)
\* tokens ti.. of the pattern match s from position si on
MatchFrom(toks, s, ti, si) ==
    IF ti > Len(toks) THEN TRUE
    ELSE LET tok == toks[ti] IN
         CASE tok.k = "bol" -> si = 1 /\ MatchFrom(toks, s, ti + 1, si)
           [] tok.k = "eol" ->
                /\ \/ si = Len(s) + 1
                   \/ si = Len(s) /\ s[si] = "\n"
                /\ MatchFrom(toks, s, ti + 1, si)
           [] tok.k = "any" -> si <= Len(s) /\ MatchFrom(toks, s, ti + 1, si + 1)
           [] OTHER -> /\ si <= Len(s)
                       /\ s[si] = tok.c
                       /\ MatchFrom(toks, s, ti + 1, si + 1)

\* pattern.search(v) is not None: a match may begin anywhere in v
pattern_match_search(toks, v) ==
    IF ~isinstance_str(v) THEN Raises("TypeError")
    ELSE Returns(\E si \in 1..(Len(v.s) + 1) : MatchFrom(toks, v.s, 1, si))

\* pattern.match(v) is not None; a v that is not a str raises TypeError
pattern_match(toks, v) ==
    IF ~isinstance_str(v) THEN Raises("TypeError")
    ELSE Returns(MatchFrom(toks, v.s, 1, 1))

----------------------------------------------------------------------------
(* sorted() *)

\* the characters of the strings compared, in code point order
CharOrder ==
    <<"\n", " ", "+", "-", "/",
      "0", "1", "2", "3", "4", "5", "6", "7", "8", "9", ":",
      "A", "B", "C", "D", "E", "F", "_", "a", "b", "c", "d", "e", "f",
      "g", "h", "i", "j", "k", "l", "m", "n", "o", "p", "q", "r", "s",
      "t", "u", "v", "w", "x", "y", "z", "{", "}">>
OrdTable ==
    [c \in {CharOrder[i] : i \in 1..Len(CharOrder)} |->
        CHOOSE i \in 1..Len(CharOrder) : CharOrder[i] = c]
ord(c) == OrdTable[c]

RECURSIVE StrLt(_, _)
StrLt(a, b) ==
    IF b = <<>> THEN FALSE
    ELSE IF a = <<>> THEN TRUE
    ELSE IF Head(a) = Head(b) THEN StrLt(Tail(a), Tail(b))
    ELSE ord(Head(a)) < ord(Head(b))

\* x < y is defined for any two of the elements xs: there is at most one
\* element, or all are numbers, or all are strs
Comparable(xs) ==
    \/ Len(xs) <= 1
    \/ \A i \in 1..Len(xs) : isinstance_int(xs[i])
    \/ \A i \in 1..Len(xs) : isinstance_str(xs[i])

Lt(a, b) == IF isinstance_int(a) THEN a.n < b.n ELSE StrLt(a.s, b.s)

RECURSIVE Insert(_, _)
Insert(x, xs) ==
    IF xs = <<>> THEN <<x>>
    ELSE IF Lt(x, Head(xs)) THEN <<x>> \o xs
    ELSE <<Head(xs)>> \o Insert(x, Tail(xs))

RECURSIVE sort_list(_)
sort_list(xs) ==
    IF xs = <<>> THEN <<>>
    ELSE Insert(xs[Len(xs)], sort_list(SubSeq(xs, 1, Len(xs) - 1)))

iterable(v) == v.t \in {"list", "tuple", "str"}

\* the elements iterating v yields
iter(v) == IF v.t = "str" THEN [i \in 1..Len(v.s) |-> PyStr(<<v.s[i]>>)] ELSE v.l

\* a sorted() that leaves the elements in the order it got them
sorted_elems_unsorted(xs) ==
    IF ~Comparable(xs)
    THEN [exc |-> "TypeError", val |-> <<>>]
    ELSE [exc |-> "", val |-> xs]

\* sorted() of the elements xs
sorted_elems(xs) ==
    IF ~Comparable(xs)
    THEN [exc |-> "TypeError", val |-> <<>>]
    ELSE [exc |-> "", val |-> sort_list(xs)]

\* sorted(v): [exc, val]; TypeError when v is not iterable or two of its
\* elements do not support <
sorted(v) ==
    IF ~iterable(v) THEN [exc |-> "TypeError", val |-> <<>>]
    ELSE sorted_elems(iter(v))

----------------------------------------------------------------------------
(* class AnyIf and its subclasses *)

\* a validator: None, or one of the lambdas with the values it closes over
NoValidator == [fn |-> "None", items |-> PyNone, pattern |-> <<>>]
Lambda(fn, items, pattern) == [fn |-> fn, items |-> items, pattern |-> pattern]

\* super().__repr__(): the identity-based label of the object
object_repr(cls) == [tag |-> "object", cls |-> cls, items |-> PyNone]

\* AnyIf.__init__
AnyIf_init(cls, validator) ==
    [cls |-> cls,
     description |-> object_repr(cls),
     validator |-> validator,
     actual |-> _not_matched,
     actuals |-> <<>>,
     other |-> <<>>]

AnyIf(validator) == AnyIf_init("AnyIf", validator)

\* an AnyInteger built with the validator of AnyString
AnyInteger_str_validator ==
    AnyIf_init("AnyInteger", Lambda("isinstance_str", PyNone, <<>>))

AnyInteger == AnyIf_init("AnyInteger", Lambda("isinstance_int", PyNone, <<>>))

AnyString == AnyIf_init("AnyString", Lambda("isinstance_str", PyNone, <<>>))

\* AnyUUID has no __init__ of its own: AnyIf.__init__ with validator None
AnyUUID == AnyIf_init("AnyUUID", NoValidator)

AnyStringMatchingRegex(pattern) ==
    LET compiled == re_compile(pattern) IN
    [AnyIf_init("AnyStringMatchingRegex", Lambda("pattern_match", PyNone, compiled))
        EXCEPT !.other = compiled]

\* a constructor that compiles the pattern when it is first used, not now
AnyStringMatchingRegex_new_deferred(pattern) ==
    [exc |-> "", obj |-> AnyStringMatchingRegex(pattern)]

\* the call AnyStringMatchingRegex(pattern): the exception of re.compile
\* leaves __init__ before a matcher is set up, else the matcher is returned
AnyStringMatchingRegex_new(pattern) ==
    IF re_error(pattern)
    THEN [exc |-> "re.error", obj |-> AnyIf_init("", NoValidator)]
    ELSE [exc |-> "", obj |-> AnyStringMatchingRegex(pattern)]

Unordered(items) == AnyIf_init("Unordered", Lambda("sorted_eq", items, <<>>))

AnyOf(items) ==
    [AnyIf_init("AnyOf", Lambda("in_items", items, <<>>))
        EXCEPT !.description = [tag |-> "any of", cls |-> "", items |-> items]]

AnyWebURLString == AnyIf_init("AnyWebURLString", Lambda("is_web_url", PyNone, <<>>))

\* AnyIf.compared
compared(self) == self.actual # _not_compared

\* AnyIf.matched
matched(self) == self.actual # _not_compared /\ self.actual # _not_matched

\* the representations __repr__ chooses from
NoDescription == [tag |-> "", cls |-> "", items |-> PyNone]
Rendering(form, description, value) ==
    [form |-> form, description |-> description, value |-> value]
NoRepr == Rendering("", NoDescription, PyNone)

\* AnyIf.__repr__: f'<not compared: {self.description}>', self.description
\* or repr(self.actual)
repr(self) ==
    IF ~compared(self)
    THEN Rendering("<not compared: description>", self.description, PyNone)
    ELSE IF ~matched(self)
    THEN Rendering("description", self.description, PyNone)
    ELSE Rendering("repr(actual)", NoDescription, self.actual)

\* a read of the matcher: the matcher after the read and what was read
ReadOut(self, val, rendering) == [self |-> self, val |-> val, repr |-> rendering]

\* reading m.compared
read_compared(self) == ReadOut(self, compared(self), NoRepr)

\* reading m.matched
read_matched(self) == ReadOut(self, matched(self), NoRepr)

\* a repr(m) that forgets the last comparison once it is rendered
read_repr_forgetting(self) ==
    ReadOut([self EXCEPT !.actual = _not_matched], FALSE, repr(self))

\* repr(m)
read_repr(self) == ReadOut(self, FALSE, repr(self))

\* a == b for the outcomes a, b of two sorted() calls, a evaluated first
sorted_eq(a, b) ==
    IF a.exc # "" THEN Raises(a.exc)
    ELSE IF b.exc # "" THEN Raises(b.exc)
    ELSE Returns(PyEq(PyList(a.val), PyList(b.val)))

\* self.validator(other), for a validator that is not None
CallValidator(f, other) ==
    CASE f.fn = "isinstance_int" -> Returns(isinstance_int(other))
      [] f.fn = "isinstance_str" -> Returns(isinstance_str(other))
      [] f.fn = "pattern_match" -> pattern_match(f.pattern, other)
      [] f.fn = "sorted_eq" -> sorted_eq(sorted(other), sorted(f.items))
      [] f.fn = "in_items" -> Returns(PyIn(other, f.items))
      [] OTHER ->
            Returns(/\ isinstance_str(other)
                    /\ \/ startswith(other.s, <<"h", "t", "t", "p", ":", "/", "/">>)
                       \/ startswith(other.s, <<"h", "t", "t", "p", "s", ":", "/", "/">>))

\* AnyUUID._validator
AnyUUID_validator(other) ==
    IF other.t \notin {"str", "UUID"} THEN Returns(FALSE)
    ELSE IF other.t = "UUID" THEN Raises("AttributeError")
    ELSE Returns(UUID_hex_ok(other.s))

\* a _validator that rejects every value when there is no validator
_validator_none_rejects(self, other) ==
    IF self.cls = "AnyUUID" THEN AnyUUID_validator(other)
    ELSE IF self.validator = NoValidator THEN Returns(FALSE)
    ELSE CallValidator(self.validator, other)

\* AnyIf._validator, with the override of AnyUUID
_validator(self, other) ==
    IF self.cls = "AnyUUID" THEN AnyUUID_validator(other)
    ELSE IF self.validator = NoValidator THEN Returns(TRUE)
    ELSE CallValidator(self.validator, other)

\* __eq__ that sets actual on success but does not append to actuals
eq_body_no_append(self, other, res) ==
    IF res.exc # "" THEN [self |-> self, res |-> res]
    ELSE IF res.val
    THEN [self |-> [self EXCEPT !.actual = other], res |-> res]
    ELSE [self |-> [self EXCEPT !.actual = _not_matched], res |-> res]

\* __eq__ that leaves actual as it was when the validator rejects
eq_body_keep_on_fail(self, other, res) ==
    IF res.exc # "" THEN [self |-> self, res |-> res]
    ELSE IF res.val
    THEN [self |-> [self EXCEPT !.actual = other, !.actuals = Append(@, other)],
          res |-> res]
    ELSE [self |-> self, res |-> res]

\* __eq__ that starts actuals afresh when the validator rejects
eq_body_reset_on_fail(self, other, res) ==
    IF res.exc # "" THEN [self |-> self, res |-> res]
    ELSE IF res.val
    THEN [self |-> [self EXCEPT !.actual = other, !.actuals = Append(@, other)],
          res |-> res]
    ELSE [self |-> [self EXCEPT !.actual = _not_matched, !.actuals = <<>>],
          res |-> res]

\* __eq__ that puts an accepted value in front of actuals
eq_body_prepend(self, other, res) ==
    IF res.exc # "" THEN [self |-> self, res |-> res]
    ELSE IF res.val
    THEN [self |-> [self EXCEPT !.actual = other, !.actuals = <<other>> \o @],
          res |-> res]
    ELSE [self |-> [self EXCEPT !.actual = _not_matched], res |-> res]

\* __eq__ that appends to actuals whatever the validator says
eq_body_append_always(self, other, res) ==
    IF res.exc # "" THEN [self |-> self, res |-> res]
    ELSE IF res.val
    THEN [self |-> [self EXCEPT !.actual = other, !.actuals = Append(@, other)],
          res |-> res]
    ELSE [self |-> [self EXCEPT !.actual = _not_matched,
                                !.actuals = Append(@, other)],
          res |-> res]

\* AnyIf.__eq__ once res = self._validator(other) is evaluated: the matcher
\* after the call and what the call returns or raises; an exception of the
\* validator leaves the matcher as it was
eq_body(self, other, res) ==
    IF res.exc # "" THEN [self |-> self, res |-> res]
    ELSE IF res.val
    THEN [self |-> [self EXCEPT !.actual = other, !.actuals = Append(@, other)],
          res |-> res]
    ELSE [self |-> [self EXCEPT !.actual = _not_matched], res |-> res]

\* the statements of __eq__ one at a time, as a thread executes them:
\* self.actual = other, or self.actual = _not_matched
set_actual(self, other, res) ==
    [self EXCEPT !.actual = IF res.val THEN other ELSE _not_matched]

\* self.actuals.append(other)
append_actual(self, other) == [self EXCEPT !.actuals = Append(@, other)]

\* an append to one list that all the matchers of the mapping e share
append_in_shared_list(e, k, other) ==
    [j \in DOMAIN e |-> append_actual(e[j], other)]

\* self.actuals.append(other), self being the matcher under k of the mapping
\* e: each matcher has the list its own __init__ made
append_in(e, k, other) == [e EXCEPT ![k] = append_actual(e[k], other)]

\* AnyIf.__eq__
eq(self, other) == eq_body(self, other, _validator(self, other))

\* __ne__ that returns self == other without negating it
not_result_same(r) == r

\* not r, for the outcome r of self == other
not_result(r) ==
    IF r.res.exc # "" THEN r ELSE [self |-> r.self, res |-> Returns(~r.res.val)]

\* AnyIf.__ne__: not (self == other)
ne(self, other) == not_result(eq(self, other))

----------------------------------------------------------------------------
(* The values compared and the expected structures *)

Chars_456 == <<"4", "5", "6">>
Chars_789 == <<"7", "8", "9">>
Chars_uuid ==
    <<"1", "2", "3", "4", "5", "6", "7", "8", "-", "1", "2", "3", "4", "-",
      "5", "6", "7", "8", "-", "1", "2", "3", "4", "-",
      "5", "6", "7", "8", "1", "2", "3", "4", "5", "6", "7", "8">>
Chars_not_a_uuid == <<"n", "o", "t", "-", "a", "-", "u", "u", "i", "d">>

\* values of every type, which a comparison may pass to any matcher
CommonValues ==
    { PyInt(1), PyInt(2), PyStr(<<"x">>),
      PyUUID(Remove(Chars_uuid, <<"-">>)),
      PyList(<<PyInt(2), PyInt(3), PyInt(1)>>),
      PyNone }

\* further values that the validator of a matcher of class cls tells apart
ScenarioValues(cls) ==
    CASE cls = "AnyInteger" -> {PyInt(123), PyBool(TRUE)}
      [] cls = "AnyString" -> {PyStr(Chars_456)}
      [] cls = "AnyUUID" -> {PyStr(Chars_uuid), PyStr(Chars_not_a_uuid)}
      [] cls = "AnyStringMatchingRegex" ->
            {PyStr(<<"a", "b", "c", "d", "e", "f">>),
             PyStr(<<"x", "a", "b", "c">>),
             PyStr(<<"a", "\n", "c">>)}
      [] cls = "Unordered" -> {PyList(<<PyInt(1), PyInt(2)>>)}
      [] cls = "AnyOf" ->
            {PyInt(123), PyInt(456), PyStr(Chars_456), PyStr(Chars_789)}
      [] cls = "AnyWebURLString" ->
            {PyStr(<<"h", "t", "t", "p", ":", "/", "/", "x">>)}
      [] OTHER -> {PyInt(456)}

\* the values a comparison may pass as other to the matcher m
Values(m) == CommonValues \cup ScenarioValues(m.cls)

\* test_diff: {'foo': AnyInteger(), 'bar': AnyOf(456, '789')}
TestExpected ==
    [foo |-> AnyInteger, bar |-> AnyOf(PyTuple(<<PyInt(456), PyStr(Chars_789)>>))]

\* test_diff: {'foo': 123, 'bar': '456'}
TestActual ==
    <<[k |-> "foo", v |-> PyInt(123)], [k |-> "bar", v |-> PyStr(Chars_456)]>>

\* the list the tests construct an Unordered with
ItemsAtConstruction == PyList(<<PyInt(3), PyInt(1), PyInt(2)>>)

\* the patterns the tests construct an AnyStringMatchingRegex with
Patterns == {<<"^", "a", "b", "c">>, <<"a", ".", "c">>, <<"(", "a", "b", "c">>}

\* the outcomes of these constructor calls
RegexConstructions == {AnyStringMatchingRegex_new(p) : p \in Patterns}

\* the matchers a one-entry expected mapping may hold
Matchers ==
    { AnyIf(NoValidator), AnyIf(Lambda("isinstance_str", PyNone, <<>>)),
      AnyInteger, AnyString, AnyUUID,
      Unordered(ItemsAtConstruction),
      AnyOf(PyTuple(<<PyInt(456), PyStr(Chars_789)>>)),
      AnyWebURLString }
    \cup {c.obj : c \in {c \in RegexConstructions : c.exc = ""}}

\* the actual mappings compared against the expected one
ActualDicts ==
    { TestActual,
      <<[k |-> "foo", v |-> PyInt(123)], [k |-> "bar", v |-> PyInt(456)]>>,
      <<[k |-> "bar", v |-> PyInt(456)], [k |-> "foo", v |-> PyStr(<<"x">>)]>>,
      <<[k |-> "foo", v |-> PyStr(<<"x">>)], [k |-> "bar", v |-> PyInt(456)]>>,
      <<[k |-> "foo", v |-> PyInt(123)], [k |-> "baz", v |-> PyInt(456)]>>,
      <<[k |-> "foo", v |-> PyInt(123)]>>,
      <<[k |-> "foo", v |-> PyList(<<PyInt(1), PyInt(2)>>)]>> }

Keys == DOMAIN expected

\* the number of leaf comparisons made so far
Compares ==
    (IF "foo" \in Keys THEN Len(log.foo) ELSE 0)
        + (IF "bar" \in Keys THEN Len(log.bar) ELSE 0)

NoCall == [op |-> "init", key |-> "", arg |-> PyNone, dict |-> <<>>,
           exc |-> "", val |-> FALSE, repr |-> NoRepr]

----------------------------------------------------------------------------
(* Operations *)

\* the test has constructed its expected mapping, or the constructor of a
\* matcher has raised and there is no mapping to compare
Init ==
    /\ \/ /\ expected \in {TestExpected} \cup {[foo |-> m] : m \in Matchers}
          /\ call = NoCall
       \/ /\ expected = <<>>
          /\ \E p \in Patterns :
                /\ AnyStringMatchingRegex_new(p).exc # ""
                /\ call = [NoCall EXCEPT !.arg = PyStr(p),
                                         !.exc = AnyStringMatchingRegex_new(p).exc]
    /\ log = [k \in DOMAIN expected |-> <<>>]
    /\ threads = <<>>

\* the outcome out of a comparison of v with the matcher under k takes effect
Compare(op, k, v, out) ==
    /\ expected' = [expected EXCEPT ![k] = out.self]
    /\ log' = [log EXCEPT ![k] = Append(@, v)]
    /\ call' = [op |-> op, key |-> k, arg |-> v, dict |-> <<>>,
                exc |-> out.res.exc, val |-> out.res.val, repr |-> NoRepr]
    /\ UNCHANGED threads

\* expected[k] == v, for a matcher compared on its own (the two-entry mapping
\* of test_diff is compared as a whole, by DictEq)
Eq(k, v) ==
    /\ Keys = {k}
    /\ Compares < MaxCompares
    /\ Compare("eq", k, v, eq(expected[k], v))

\* expected[k] != v
Ne(k, v) ==
    /\ Keys = {k}
    /\ Compares < MaxCompares
    /\ Compare("ne", k, v, ne(expected[k], v))

\* the outcome out of a read of the matcher under k takes effect
Read(op, k, out) ==
    /\ expected' = [expected EXCEPT ![k] = out.self]
    /\ call' = [op |-> op, key |-> k, arg |-> PyNone, dict |-> <<>>,
                exc |-> "", val |-> out.val, repr |-> out.repr]
    /\ UNCHANGED <<log, threads>>

\* the test reads expected[k].compared, expected[k].matched or
\* repr(expected[k]) between two comparisons
GetCompared(k) ==
    /\ Compares < MaxCompares
    /\ Read("compared", k, read_compared(expected[k]))

GetMatched(k) ==
    /\ Compares < MaxCompares
    /\ Read("matched", k, read_matched(expected[k]))

Repr(k) ==
    /\ Compares < MaxCompares
    /\ Read("repr", k, read_repr(expected[k]))

\* the entries of d that are compared, given the set of entries that differ:
\* those up to the first that differs
dict_eq_upto(d, stops) ==
    IF stops = {} THEN Len(d) ELSE CHOOSE i \in stops : \A j \in stops : i <= j

\* the entry of d with key k
dict_entry(d, k) == CHOOSE i \in 1..Len(d) : d[i].k = k

\* d == e once entries 1..last are compared, outs[i] being the outcome of
\* comparing entry i with the matcher under its key
dict_eq_result(d, e, lg, outs, last) ==
    [expected |->
        [k \in DOMAIN e |->
            IF \E i \in 1..last : d[i].k = k
            THEN outs[dict_entry(d, k)].self ELSE e[k]],
     log |->
        [k \in DOMAIN e |->
            IF \E i \in 1..last : d[i].k = k
            THEN Append(lg[k], d[dict_entry(d, k)].v) ELSE lg[k]],
     res |-> outs[last].res]

dict_eq_outs(d, e, lg, outs) ==
    dict_eq_result(d, e, lg, outs,
        dict_eq_upto(d, {i \in 1..Len(d) : outs[i].res # Returns(TRUE)}))

\* d == e for two mappings (the keys of d are distinct): when they have the
\* same number of entries, each value of d is compared with the matcher
\* under the same key, in the order of d, until one differs or raises; a key
\* of d that e does not have makes them differ
dict_eq(d, e, lg) ==
    IF Len(d) # Cardinality(DOMAIN e)
    THEN [expected |-> e, log |-> lg, res |-> Returns(FALSE)]
    ELSE dict_eq_outs(d, e, lg,
            [i \in 1..Len(d) |->
                IF d[i].k \in DOMAIN e THEN eq(e[d[i].k], d[i].v)
                ELSE [self |-> e.foo, res |-> Returns(FALSE)]])

\* the outcome out of d == expected takes effect
CompareDict(d, out) ==
    /\ expected' = out.expected
    /\ log' = out.log
    /\ call' = [op |-> "dict_eq", key |-> "", arg |-> PyNone, dict |-> d,
                exc |-> out.res.exc, val |-> out.res.val, repr |-> NoRepr]
    /\ UNCHANGED threads

\* assert d == expected
DictEq(d) ==
    /\ Keys # {}
    /\ Compares + Len(d) <= MaxCompares
    /\ CompareDict(d, dict_eq(d, expected, log))

Next ==
    \/ \E k \in Keys : \E v \in Values(expected[k]) : Eq(k, v)
    \/ \E k \in Keys : \E v \in Values(expected[k]) : Ne(k, v)
    \/ \E d \in ActualDicts : DictEq(d)
    \/ \E k \in Keys : GetCompared(k)
    \/ \E k \in Keys : GetMatched(k)
    \/ \E k \in Keys : Repr(k)

Spec == Init /\ [][Next]_vars

----------------------------------------------------------------------------
(* The caller keeps the list it constructed an Unordered with *)

\* items.pop() by the caller, between two comparisons: the lambda of
\* Unordered.__init__ refers to the caller's list object, so what it reads
\* as items is the list as it is now
ItemsPop(k) ==
    /\ expected[k].cls = "Unordered"
    /\ expected[k].validator.items.l # <<>>
    /\ expected' = [expected EXCEPT
            ![k].validator.items.l = SubSeq(@, 1, Len(@) - 1)]
    /\ call' = [NoCall EXCEPT !.op = "items.pop", !.key = k]
    /\ UNCHANGED <<log, threads>>

NextSnapshot ==
    \/ Next
    \/ \E k \in Keys : ItemsPop(k)

SpecSnapshot == Init /\ [][NextSnapshot]_vars

----------------------------------------------------------------------------
(* Comparisons made by two threads at once, statement by statement *)

Threads == {1, 2}

\* the matchers and values of the concurrent assertions
ParMatchers == {AnyInteger, AnyString, Unordered(ItemsAtConstruction)}
ParValues == {PyInt(1), PyStr(<<"x">>), PyInt(2)}

\* a thread that is not inside __eq__
Idle(k) == [pc |-> "idle", key |-> k, other |-> PyNone, res |-> Returns(FALSE)]

\* the threads compare against one shared matcher, or each against a freshly
\* constructed matcher of its own
InitPar ==
    /\ \E m \in ParMatchers :
        \/ /\ expected = [foo |-> m]
           /\ threads = [t \in Threads |-> Idle("foo")]
        \/ /\ expected = [foo |-> m, bar |-> m]
           /\ threads = [t \in Threads |-> Idle(IF t = 1 THEN "foo" ELSE "bar")]
    /\ log = [k \in DOMAIN expected |-> <<>>]
    /\ call = NoCall

\* thread t leaves __eq__, which returns or raises res
Return(t, k, v, res) ==
    /\ threads' = [threads EXCEPT ![t] = Idle(k)]
    /\ call' = [op |-> "eq", key |-> k, arg |-> v, dict |-> <<>>,
                exc |-> res.exc, val |-> res.val, repr |-> NoRepr]

\* thread t enters expected[k] == v and executes res = self._validator(other)
Validate(t, v) ==
    /\ threads[t].pc = "idle"
    /\ Compares < MaxCompares
    /\ log' = [log EXCEPT ![threads[t].key] = Append(@, v)]
    /\ IF _validator(expected[threads[t].key], v).exc # ""
       THEN Return(t, threads[t].key, v, _validator(expected[threads[t].key], v))
       ELSE /\ threads' = [threads EXCEPT ![t] =
                    [pc |-> "validated", key |-> threads[t].key, other |-> v,
                     res |-> _validator(expected[threads[t].key], v)]]
            /\ UNCHANGED call
    /\ UNCHANGED expected

\* thread t executes self.actual = other and goes on to the append, or
\* executes self.actual = _not_matched and returns
Assign(t) ==
    /\ threads[t].pc = "validated"
    /\ expected' = [expected EXCEPT ![threads[t].key] =
            set_actual(@, threads[t].other, threads[t].res)]
    /\ IF threads[t].res.val
       THEN /\ threads' = [threads EXCEPT ![t].pc = "assigned"]
            /\ UNCHANGED call
       ELSE Return(t, threads[t].key, threads[t].other, threads[t].res)
    /\ UNCHANGED log

\* thread t executes self.actuals.append(other) and returns
AppendActual(t) ==
    /\ threads[t].pc = "assigned"
    /\ expected' = append_in(expected, threads[t].key, threads[t].other)
    /\ Return(t, threads[t].key, threads[t].other, threads[t].res)
    /\ UNCHANGED log

NextPar ==
    \/ \E t \in Threads, v \in ParValues : Validate(t, v)
    \/ \E t \in Threads : Assign(t)
    \/ \E t \in Threads : AppendActual(t)

SpecPar == InitPar /\ [][NextPar]_vars

----------------------------------------------------------------------------
(* Properties *)

\* the matcher the last direct comparison was made on
Callee == expected[call.key]

\* the last operation was a comparison expected[k] == v that returned normally
EqReturned == call.op = "eq" /\ call.exc = ""

Last(xs) == xs[Len(xs)]

\* the matcher accepts v (its validator returns true)
Accepts(m, v) == _validator(m, v) = Returns(TRUE)

\* C1: when m == v returns true, then right afterwards m.matched is true,
\* m.actual equals v and v is the last element of m.actuals.
C1_TrueComparisonIsRecorded ==
    (EqReturned /\ call.val) =>
        /\ matched(Callee)
        /\ PyEq(Callee.actual, call.arg)
        /\ Callee.actuals # <<>>
        /\ PyEq(Last(Callee.actuals), call.arg)

\* a specialized matcher that had matched before has just returned true again
C1_Witness ==
    /\ EqReturned /\ call.val
    /\ Callee.cls = "AnyUUID"
    /\ Len(Callee.actuals) = 2

\* C2: a freshly constructed matcher, before any comparison, has actual equal
\* to the NOT_COMPARED sentinel and actuals empty, so that compared and
\* matched are both false.
C2_FreshMatcherIsNotCompared ==
    call = NoCall =>
        \A k \in Keys :
            /\ expected[k].actual = _not_compared
            /\ expected[k].actuals = <<>>
            /\ ~compared(expected[k])
            /\ ~matched(expected[k])

\* C3: when m == v returns false (v fails validation), then afterwards actual
\* is the NOT_MATCHED sentinel, matched is false and compared is true, also
\* when an earlier comparison on m had matched.
C3_FailedComparisonIsNotMatched ==
    (EqReturned /\ ~call.val) =>
        /\ Callee.actual = _not_matched
        /\ ~matched(Callee)
        /\ compared(Callee)

\* a comparison has failed on a matcher that had matched earlier
C3_Witness ==
    /\ EqReturned /\ ~call.val
    /\ Callee.actuals # <<>>
    /\ Callee.actual = _not_matched

\* C4: compared is true iff at least one comparison attempt has been made on
\* the matcher, and matched is true iff at least one attempt has been made
\* and the most recent one succeeded.
C4_ComparedIffAttempted ==
    \A k \in Keys :
        /\ compared(expected[k]) <=> (Len(log[k]) > 0)
        /\ matched(expected[k]) <=>
                (Len(log[k]) > 0 /\ Accepts(expected[k], Last(log[k])))

\* C5: actuals is exactly the subsequence of the compared values that the
\* matcher accepted, in the order they were compared.
C5_ActualsAreTheAcceptedValues ==
    \A k \in Keys :
        expected[k].actuals =
            SelectSeq(log[k], LAMBDA v : Accepts(expected[k], v))

\* one AnyInteger compared in turn against 1, "x", 2 ends with actuals [1, 2]
C5_Witness ==
    /\ Keys = {"foo"}
    /\ expected.foo.cls = "AnyInteger"
    /\ log.foo = <<PyInt(1), PyStr(<<"x">>), PyInt(2)>>
    /\ expected.foo.actuals = <<PyInt(1), PyInt(2)>>

\* C6: m != v returns (or raises) the negation of what m == v returns from
\* the same state, and leaves the matcher in the state m == v would leave it.
C6_NeIsNegatedEq ==
    [][call'.op = "ne" =>
        /\ call'.exc = eq(expected[call'.key], call'.arg).res.exc
        /\ call'.exc = "" =>
                call'.val = ~eq(expected[call'.key], call'.arg).res.val
        /\ expected'[call'.key] = eq(expected[call'.key], call'.arg).self]_vars

\* m != v has returned false for an accepted v, which it recorded
C6_Witness ==
    /\ call.op = "ne" /\ call.exc = "" /\ ~call.val
    /\ Callee.actual = call.arg
    /\ Len(Callee.actuals) = 2

\* the alternatives of AnyOf(456, '789')
Alternatives == <<PyInt(456), PyStr(Chars_789)>>

\* the expected mapping is the one of test_diff
IsTestExpected ==
    /\ Keys = {"foo", "bar"}
    /\ expected.foo.cls = "AnyInteger"
    /\ expected.bar.cls = "AnyOf"
    /\ expected.bar.validator.items = PyTuple(Alternatives)

\* test_diff has compared its two mappings, on freshly constructed matchers
TestDiffDone ==
    /\ IsTestExpected
    /\ call.op = "dict_eq" /\ call.dict = TestActual
    /\ Len(log.foo) = 1 /\ Len(log.bar) <= 1

C9_ComparisonNeverRaises ==
    call.op \in {"eq", "ne", "dict_eq"} => call.exc = ""

\* C10: AnyUUID() == v returns true exactly when v is a str or a UUID that
\* is a valid UUID; for any other v it returns false and matched is false
\* afterwards; no exception is raised.
C10_AnyUUIDAcceptsValidUUIDs ==
    (call.op = "eq" /\ Callee.cls = "AnyUUID") =>
        /\ call.exc = ""
        /\ call.val <=>
                \/ call.arg.t = "UUID"
                \/ call.arg.t = "str" /\ UUID_hex_ok(call.arg.s)
        /\ ~call.val => ~matched(Callee)

\* the most recent comparison on the matcher under k returned res
LastReturned(k, res) ==
    Len(log[k]) > 0 /\ _validator(expected[k], Last(log[k])) = Returns(res)

\* C11: the representation of a matcher is the description wrapped as
\* "not compared" when it was never compared, the bare description when the
\* most recent comparison failed, and the repr of actual when it succeeded.
C11_ReprTellsTheThreeStates ==
    \A k \in Keys :
        /\ Len(log[k]) = 0 =>
                repr(expected[k]) =
                    Rendering("<not compared: description>",
                              expected[k].description, PyNone)
        /\ LastReturned(k, FALSE) =>
                repr(expected[k]) =
                    Rendering("description", expected[k].description, PyNone)
        /\ LastReturned(k, TRUE) =>
                repr(expected[k]) =
                    Rendering("repr(actual)", NoDescription, Last(log[k]))
        /\ (call.op = "repr" /\ call.key = k) => call.repr = repr(expected[k])

\* C12: a comparison that fails leaves actuals, description and validator as
\* they were; one that succeeds appends exactly one element to actuals and
\* leaves the earlier elements, description and validator as they were.
C12_ComparisonChangesOnlyItsRecord ==
    [][(call'.op \in {"eq", "ne"} /\ call'.exc = "") =>
        /\ expected'[call'.key].description = expected[call'.key].description
        /\ expected'[call'.key].validator = expected[call'.key].validator
        /\ call'.val # (call'.op = "eq") =>
                expected'[call'.key].actuals = expected[call'.key].actuals
        /\ call'.val = (call'.op = "eq") =>
                /\ Len(expected'[call'.key].actuals) =
                        Len(expected[call'.key].actuals) + 1
                /\ SubSeq(expected'[call'.key].actuals, 1,
                          Len(expected[call'.key].actuals)) =
                        expected[call'.key].actuals]_vars

\* a comparison has failed on a matcher that had recorded two values
C12_Witness ==
    /\ EqReturned /\ ~call.val
    /\ Len(Callee.actuals) = 2
    /\ Len(log[call.key]) = 3

\* C13: reading compared, matched or the representation of a matcher leaves
\* the matcher as it was; a step that changes a matcher is a comparison.
C13_ReadsChangeNothing ==
    [][/\ call'.op \in {"compared", "matched", "repr"} => expected' = expected
       /\ expected' # expected => call'.op \in {"eq", "ne", "dict_eq"}]_vars

\* the representation of a matcher that has matched was read
C13_Witness ==
    /\ call.op = "repr"
    /\ call.repr.form = "repr(actual)"
    /\ Len(Callee.actuals) = 2

\* the number of times x occurs in xs
Count(xs, x) == Cardinality({i \in 1..Len(xs) : xs[i] = x})

\* xs and ys hold the same elements, each as many times
SameElements(xs, ys) ==
    /\ Len(xs) = Len(ys)
    /\ \A i \in 1..Len(xs) : Count(xs, xs[i]) = Count(ys, xs[i])

\* C14: Unordered(items) == v returns true iff v, sorted, equals items sorted
\* the same way, that is iff v holds the elements of items, each as many
\* times, in any order: Unordered([3, 1, 2]) accepts [2, 3, 1], not [1, 2].
C14_UnorderedComparesSortedForms ==
    (call.op = "eq" /\ Callee.cls = "Unordered") =>
        (call.exc = "" /\ call.val) <=>
            /\ iterable(call.arg)
            /\ SameElements(iter(call.arg), iter(Callee.validator.items))

\* Unordered([3, 1, 2]) has accepted [2, 3, 1] after it rejected [1, 2]
C14_Witness ==
    /\ EqReturned /\ call.val
    /\ Callee.cls = "Unordered"
    /\ Callee.validator.items = PyList(<<PyInt(3), PyInt(1), PyInt(2)>>)
    /\ log.foo = <<PyList(<<PyInt(1), PyInt(2)>>),
                   PyList(<<PyInt(2), PyInt(3), PyInt(1)>>)>>

\* C15: AnyStringMatchingRegex(p) == v returns true exactly when p matches v
\* from its first character on, "." matching a newline too; a match that
\* begins later in v does not count: "^abc" accepts "abcdef", not "xabc".
C15_RegexMatchesFromTheStart ==
    (call.op = "eq" /\ Callee.cls = "AnyStringMatchingRegex") =>
        (call.exc = "" /\ call.val) <=>
            /\ call.arg.t = "str"
            /\ Callee.other = re_compile(<<"^", "a", "b", "c">>) =>
                    startswith(call.arg.s, <<"a", "b", "c">>)
            /\ Callee.other = re_compile(<<"a", ".", "c">>) =>
                    /\ Len(call.arg.s) >= 3
                    /\ call.arg.s[1] = "a"
                    /\ call.arg.s[3] = "c"

\* the pattern "a.c" has matched "a\nc" after it rejected "xabc"
C15_Witness ==
    /\ EqReturned /\ call.val
    /\ Callee.other = re_compile(<<"a", ".", "c">>)
    /\ log.foo = <<PyStr(<<"x", "a", "b", "c">>), PyStr(<<"a", "\n", "c">>)>>

\* C16: AnyIf() without a validator accepts every value: == returns true,
\* sets actual and appends to actuals; AnyIf(validator) == v returns exactly
\* what validator(v) returns.
C16_ValidatorDecides ==
    (call.op = "eq" /\ Callee.cls = "AnyIf") =>
        /\ call.exc = ""
        /\ Callee.validator = NoValidator =>
                /\ call.val
                /\ Callee.actual = call.arg
                /\ Callee.actuals # <<>>
                /\ Last(Callee.actuals) = call.arg
        /\ Callee.validator = Lambda("isinstance_str", PyNone, <<>>) =>
                call.val = isinstance_str(call.arg)

\* AnyIf() has accepted None as the third value in a row
C16_Witness ==
    /\ EqReturned /\ call.val
    /\ Callee.cls = "AnyIf" /\ Callee.validator = NoValidator
    /\ call.arg = PyNone
    /\ Len(Callee.actuals) = 3

\* C17: constructing an AnyStringMatchingRegex with an invalid pattern raises
\* at construction and yields no matcher; the error is never deferred to a
\* comparison, so every AnyStringMatchingRegex there is holds the compiled
\* form of a valid pattern.
C17_InvalidPatternFailsAtConstruction ==
    /\ call.exc = "re.error" =>
            /\ call.op = "init"
            /\ re_error(call.arg.s)
            /\ Keys = {}
    /\ \A k \in Keys :
            expected[k].cls = "AnyStringMatchingRegex" =>
                /\ ~re_error(re_pattern(expected[k].other))
                /\ expected[k].other = re_compile(re_pattern(expected[k].other))
                /\ expected[k].validator.pattern = expected[k].other

\* AnyStringMatchingRegex("(abc") has raised re.error and left no matcher
C17_Witness ==
    /\ call.op = "init"
    /\ call.exc = "re.error"
    /\ call.arg = PyStr(<<"(", "a", "b", "c">>)
    /\ expected = <<>>

\* C18: Unordered takes items as a snapshot at construction: what a
\* comparison with v returns depends only on v and on what items held then,
\* also after the caller has changed the collection it passed.
C18_UnorderedKeepsASnapshot ==
    (EqReturned /\ Callee.cls = "Unordered") =>
        call.val <=>
            /\ iterable(call.arg)
            /\ SameElements(iter(call.arg), iter(ItemsAtConstruction))

\* the matcher under k has matched and actual is the last element of actuals
Consistent(m) == matched(m) => (m.actuals # <<>> /\ m.actual = Last(m.actuals))

\* C19: comparisons made in parallel on one matcher can leave it in a state
\* that no sequential order produces, matched with actual different from the
\* last element of actuals; when each concurrent assertion has a freshly
\* constructed matcher of its own, a matcher whose thread is not inside a
\* comparison is never in such a state, and has recorded what it accepted.
C19_FreshMatchersStayConsistent ==
    \A t \in DOMAIN threads :
        (Keys = {"foo", "bar"} /\ threads[t].pc = "idle") =>
            /\ Consistent(expected[threads[t].key])
            /\ expected[threads[t].key].actuals =
                    SelectSeq(log[threads[t].key],
                              LAMBDA v : Accepts(expected[threads[t].key], v))

\* two threads have compared against one shared matcher, both have returned,
\* and the matcher is matched with actual different from the last of actuals
C19_Witness ==
    /\ Keys = {"foo"}
    /\ \A t \in DOMAIN threads : threads[t].pc = "idle"
    /\ DOMAIN threads # {}
    /\ matched(expected.foo)
    /\ Len(expected.foo.actuals) = 2
    /\ expected.foo.actual # Last(expected.foo.actuals)

\* C20: when comparisons are made one after the other, a matched matcher
\* has a non-empty actuals whose last element is actual, and actuals is
\* non-empty iff at least one comparison on the matcher has succeeded.
C20_MatchedMeansLastOfActuals ==
    \A k \in Keys :
        /\ Consistent(expected[k])
        /\ expected[k].actuals # <<>> <=>
                \E i \in 1..Len(log[k]) : Accepts(expected[k], log[k][i])

\* an AnyWebURLString has matched again after a comparison that failed
C20_Witness ==
    /\ EqReturned /\ call.val
    /\ Callee.cls = "AnyWebURLString"
    /\ matched(Callee)
    /\ Len(log.foo) = 3
    /\ Len(Callee.actuals) = 2
    /\ ~Accepts(Callee, log.foo[2])

====
